---- MODULE Spec2Model ----
(***************************************************************************)
(* Model of the valuation engine of stock_analytics:                       *)
(*   src/value_calculation.py  class Stock                                 *)
(*   src/panel_app.py          get_value, merge_valuations_into_metrics    *)
(*                                                                         *)
(* Python values are tagged records: None, numbers, strings (sequences of  *)
(* one-character strings) and other objects.  Python floats are modelled   *)
(* as exact rationals over arbitrary-size naturals (sequences of base      *)
(* 10000 limbs, least significant first), so rounding is not modelled.     *)
(* A raised exception is the value Raise(kind).                            *)
(*                                                                         *)
(* A method is modelled by a chain of operators: each intermediate value   *)
(* the code names (s, m, fcf0, fcf_projs, tv, d, ...) is a parameter of    *)
(* the operator that models the lines using it.                            *)
(***************************************************************************)
EXTENDS Integers, Sequences, FiniteSets, TLC

(***************************************************************************)
(* Arbitrary-size naturals: <<>> is 0, limbs are in 0..9999, the last limb *)
(* is never 0.                                                             *)
(***************************************************************************)
RECURSIVE BTrim(_)
BTrim(a) ==
    IF a = <<>> THEN <<>>
    ELSE IF a[Len(a)] = 0 THEN BTrim(SubSeq(a, 1, Len(a) - 1))
    ELSE a

BFromInt(k) ==
    IF k = 0 THEN <<>>
    ELSE IF k < 10000 THEN <<k>>
    ELSE IF k < 100000000 THEN <<k % 10000, k \div 10000>>
    ELSE <<k % 10000, (k \div 10000) % 10000, k \div 100000000>>

\* The value of a natural of at most two limbs.
BToInt(a) ==
    IF a = <<>> THEN 0
    ELSE IF Len(a) = 1 THEN a[1]
    ELSE a[1] + 10000 * a[2]

RECURSIVE BAddC(_, _, _)
BAddC(a, b, c) ==
    IF a = <<>> /\ b = <<>> THEN (IF c = 0 THEN <<>> ELSE <<c>>)
    ELSE LET x  == (IF a = <<>> THEN 0 ELSE Head(a))
                   + (IF b = <<>> THEN 0 ELSE Head(b)) + c
             ta == IF a = <<>> THEN <<>> ELSE Tail(a)
             tb == IF b = <<>> THEN <<>> ELSE Tail(b)
         IN  <<x % 10000>> \o BAddC(ta, tb, x \div 10000)

BAdd(a, b) == BAddC(a, b, 0)

\* -1, 0, 1 as a < b, a = b, a > b.
RECURSIVE BCmpFrom(_, _, _)
BCmpFrom(a, b, i) ==
    IF i = 0 THEN 0
    ELSE IF a[i] < b[i] THEN -1
    ELSE IF a[i] > b[i] THEN 1
    ELSE BCmpFrom(a, b, i - 1)

BCmp(a, b) ==
    IF Len(a) < Len(b) THEN -1
    ELSE IF Len(a) > Len(b) THEN 1
    ELSE BCmpFrom(a, b, Len(a))

\* a - b for a >= b.
RECURSIVE BSubC(_, _, _)
BSubC(a, b, c) ==
    IF a = <<>> THEN <<>>
    ELSE LET x  == Head(a) - (IF b = <<>> THEN 0 ELSE Head(b)) - c
             tb == IF b = <<>> THEN <<>> ELSE Tail(b)
         IN  IF x < 0 THEN <<x + 10000>> \o BSubC(Tail(a), tb, 1)
             ELSE <<x>> \o BSubC(Tail(a), tb, 0)

BSub(a, b) == BTrim(BSubC(a, b, 0))

\* a * k for a limb k in 0..9999.
RECURSIVE BMulSmallC(_, _, _)
BMulSmallC(a, k, c) ==
    IF a = <<>> THEN (IF c = 0 THEN <<>> ELSE <<c>>)
    ELSE LET x == Head(a) * k + c
         IN  <<x % 10000>> \o BMulSmallC(Tail(a), k, x \div 10000)

BMulSmall(a, k) == IF k = 0 THEN <<>> ELSE BMulSmallC(a, k, 0)

BShift(a) == IF a = <<>> THEN <<>> ELSE <<0>> \o a

RECURSIVE BMul(_, _)
BMul(a, b) ==
    IF a = <<>> \/ b = <<>> THEN <<>>
    ELSE BAdd(BMulSmall(b, Head(a)), BShift(BMul(Tail(a), b)))

\* <<quotient, remainder>> of a by a small k in 1..9999.
RECURSIVE BDivSmallFrom(_, _, _, _)
BDivSmallFrom(a, k, i, r) ==
    IF i = 0 THEN <<<<>>, r>>
    ELSE LET x    == r * 10000 + a[i]
             rest == BDivSmallFrom(a, k, i - 1, x % k)
         IN  <<rest[1] \o <<x \div k>>, rest[2]>>

BDivSmall(a, k) ==
    LET qr == BDivSmallFrom(a, k, Len(a), 0) IN <<BTrim(qr[1]), qr[2]>>

RECURSIVE Gcd(_, _)
Gcd(a, b) == IF b = 0 THEN a ELSE Gcd(b, a % b)

(***************************************************************************)
(* Python values.                                                          *)
(***************************************************************************)
None == [t |-> "none"]

Str(s) == [t |-> "str", s |-> s]

\* An object that is neither None, a number, a string nor a mapping (a list).
Obj == [t |-> "obj"]

Raise(kind) == [t |-> "raise", kind |-> kind]

IsNone(v) == v.t = "none"
IsNum(v) == v.t = "num"
IsStr(v) == v.t = "str"
IsRaise(v) == v.t = "raise"

(***************************************************************************)
(* Floats as exact rationals: (-1)^neg * num / den, num and den naturals,  *)
(* den > 0.  Zero is never negative.  Fractions of small naturals are in   *)
(* lowest terms; larger ones have the common factors of ten removed.       *)
(***************************************************************************)
RECURSIVE StripTens(_, _)
StripTens(n, d) ==
    IF n # <<>> /\ n[1] % 10 = 0 /\ d[1] % 10 = 0
    THEN StripTens(BDivSmall(n, 10)[1], BDivSmall(d, 10)[1])
    ELSE <<n, d>>

Num(neg, n, d) ==
    IF n = <<>> THEN [t |-> "num", neg |-> FALSE, num |-> <<>>, den |-> <<1>>]
    ELSE IF Len(n) <= 2 /\ Len(d) <= 2
    THEN LET g == Gcd(BToInt(n), BToInt(d))
         IN  [t |-> "num", neg |-> neg, num |-> BFromInt(BToInt(n) \div g),
              den |-> BFromInt(BToInt(d) \div g)]
    ELSE LET nd == StripTens(n, d)
         IN  [t |-> "num", neg |-> neg, num |-> nd[1], den |-> nd[2]]

\* The float a / b for small integers a and b > 0.
Frac(a, b) == Num(a < 0, BFromInt(IF a < 0 THEN -a ELSE a), BFromInt(b))

Float(a) == Frac(a, 1)

IsZero(x) == x.num = <<>>

Neg(x) == Num(~x.neg, x.num, x.den)

Mul(x, y) == Num(x.neg # y.neg, BMul(x.num, y.num), BMul(x.den, y.den))

\* x / y for y # 0.
Div(x, y) == Num(x.neg # y.neg, BMul(x.num, y.den), BMul(x.den, y.num))

\* a/d + b/d for naturals a, b, d and the signs of the two terms.
AddOver(xneg, a, yneg, b, d) ==
    IF xneg = yneg THEN Num(xneg, BAdd(a, b), d)
    ELSE IF BCmp(a, b) >= 0 THEN Num(xneg, BSub(a, b), d)
    ELSE Num(yneg, BSub(b, a), d)

Add(x, y) ==
    AddOver(x.neg, BMul(x.num, y.den), y.neg, BMul(y.num, x.den),
            BMul(x.den, y.den))

Sub(x, y) == Add(x, Neg(y))

\* -1, 0, 1 as z < 0, z = 0, z > 0.
Sign(z) == IF IsZero(z) THEN 0 ELSE IF z.neg THEN -1 ELSE 1

\* -1, 0, 1 as x < y, x = y, x > y.
Cmp(x, y) == Sign(Sub(x, y))

Lt(x, y) == Cmp(x, y) < 0
Le(x, y) == Cmp(x, y) <= 0
Eq(x, y) == Cmp(x, y) = 0

\* x ** k for an integer k >= 0.
RECURSIVE Pow(_, _)
Pow(x, k) == IF k = 0 THEN Float(1) ELSE Mul(x, Pow(x, k - 1))

(***************************************************************************)
(* Strings are sequences of one-character strings.  The characters used    *)
(* are ASCII letters, digits, the space and punctuation; a numeric string  *)
(* never holds an exponent, an underscore, "inf" or "nan".                 *)
(***************************************************************************)
Digits == <<"0", "1", "2", "3", "4", "5", "6", "7", "8", "9">>

UpperLetters ==
    <<"A", "B", "C", "D", "E", "F", "G", "H", "I", "J", "K", "L", "M",
      "N", "O", "P", "Q", "R", "S", "T", "U", "V", "W", "X", "Y", "Z">>

LowerLetters ==
    <<"a", "b", "c", "d", "e", "f", "g", "h", "i", "j", "k", "l", "m",
      "n", "o", "p", "q", "r", "s", "t", "u", "v", "w", "x", "y", "z">>

Range(f) == {f[i] : i \in DOMAIN f}

IsDigit(c) == c \in Range(Digits)

DigitVal(c) == (CHOOSE i \in DOMAIN Digits : Digits[i] = c) - 1

IsSpace(c) == c = " "

\* str.lower() of one character.
LowerChar(c) ==
    IF c \in Range(UpperLetters)
    THEN LowerLetters[CHOOSE i \in DOMAIN UpperLetters : UpperLetters[i] = c]
    ELSE c

Lower(s) == [i \in DOMAIN s |-> LowerChar(s[i])]

RECURSIVE LStrip(_)
LStrip(s) == IF s # <<>> /\ IsSpace(Head(s)) THEN LStrip(Tail(s)) ELSE s

RECURSIVE RStrip(_)
RStrip(s) ==
    IF s # <<>> /\ IsSpace(s[Len(s)]) THEN RStrip(SubSeq(s, 1, Len(s) - 1))
    ELSE s

\* str.strip()
Strip(s) == RStrip(LStrip(s))

\* s.replace(c, '') for each character c of cs.
Remove(s, cs) == SelectSeq(s, LAMBDA c : c \notin cs)

StartsWith(s, c) == s # <<>> /\ s[1] = c
EndsWith(s, c) == s # <<>> /\ s[Len(s)] = c

\* The natural written by a sequence of digits.
RECURSIVE DigitsValue(_)
DigitsValue(ds) ==
    IF ds = <<>> THEN <<>>
    ELSE BAdd(BMulSmall(DigitsValue(SubSeq(ds, 1, Len(ds) - 1)), 10),
              BFromInt(DigitVal(ds[Len(ds)])))

RECURSIVE BPow10(_)
BPow10(k) == IF k = 0 THEN <<1>> ELSE BMulSmall(BPow10(k - 1), 10)

\* Python's float(str): surrounding whitespace, an optional sign, digits with
\* at most one point and at least one digit; anything else is a ValueError.
ParseFloat(str) ==
    LET s     == Strip(str)
        neg   == StartsWith(s, "-")
        body  == IF StartsWith(s, "-") \/ StartsWith(s, "+") THEN Tail(s) ELSE s
        ds    == Remove(body, {"."})
        dots  == Len(body) - Len(ds)
        point == IF dots = 0 THEN Len(body) + 1
                 ELSE CHOOSE i \in DOMAIN body : body[i] = "."
        fracs == Len(body) + 1 - point - dots
    IN  IF ds = <<>> \/ dots > 1 \/ \E i \in DOMAIN ds : ~IsDigit(ds[i])
        THEN Raise("ValueError")
        ELSE Num(neg, DigitsValue(ds), BPow10(IF dots = 0 THEN 0 ELSE Len(body) - point))

\* The characters of the number group [\d,.] of the suffix pattern.
IsBodyChar(c) == IsDigit(c) \/ c \in {",", "."}

\* The suffix class of the pattern, [kmbKMb].
SuffixClass == {"k", "m", "b", "K", "M", "b"}

\* The first index from i on that is past the run of number characters.
RECURSIVE SkipBody(_, _)
SkipBody(s, i) ==
    IF i <= Len(s) /\ IsBodyChar(s[i]) THEN SkipBody(s, i + 1) ELSE i

\* The first index from i on that is past the run of whitespace.
RECURSIVE SkipSpace(_, _)
SkipSpace(s, i) ==
    IF i <= Len(s) /\ IsSpace(s[i]) THEN SkipSpace(s, i + 1) ELSE i

\* re.match(r'^([+-]?[\d,.]+)\s*([kmbKMb]?)$', s): None, or the two groups.
MatchSuffix(s) ==
    LET i0 == IF s # <<>> /\ s[1] \in {"+", "-"} THEN 2 ELSE 1
        i1 == SkipBody(s, i0)
        i2 == SkipSpace(s, i1)
        i3 == IF i2 <= Len(s) /\ s[i2] \in SuffixClass THEN i2 + 1 ELSE i2
    IN  IF i1 > i0 /\ i3 = Len(s) + 1
        THEN [matched |-> TRUE, body |-> SubSeq(s, 1, i1 - 1),
              suffix |-> SubSeq(s, i2, i3 - 1)]
        ELSE [matched |-> FALSE]

\* str(v) of a string or of another object (an empty list).
StrOf(v) == IF IsStr(v) THEN v.s ELSE <<"[", "]">>

\* Lines 67, 79, 82: None when float() raised (line 83), else -num if neg
\* else num.
Signed(neg, f) == IF IsRaise(f) THEN None ELSE IF neg THEN Neg(f) ELSE f

\* Lines 66-67: f is float() of the text before the percent sign.
Percent(f) == IF IsRaise(f) THEN f ELSE Div(f, Float(100))

\* Lines 71-78: f is float() of the number group, suf the lower-cased suffix.
Scaled(f, suf) ==
    IF IsRaise(f) THEN f
    ELSE IF suf = <<"k">> THEN Mul(f, Float(1000))
    ELSE IF suf = <<"m">> THEN Mul(f, Float(1000000))
    ELSE IF suf = <<"b">> THEN Mul(f, Float(1000000000))
    ELSE f

\* Lines 69-82: m is what the suffix pattern matched in s.
Suffixed(s, m) ==
    IF m.matched THEN Scaled(ParseFloat(Remove(m.body, {","})), Lower(m.suffix))
    ELSE ParseFloat(Remove(s, {",", "$"}))

\* Lines 65-82: the number, unsigned, of the text s left inside any parentheses.
ParseBody(s) ==
    IF EndsWith(s, "%")
    THEN Percent(ParseFloat(Remove(SubSeq(s, 1, Len(s) - 1), {",", "$"})))
    ELSE Suffixed(s, MatchSuffix(s))

\* Lines 60-63: neg says whether s0 is wrapped in parentheses.
ParseWrapped(neg, s0) ==
    Signed(neg, ParseBody(IF neg THEN Strip(SubSeq(s0, 2, Len(s0) - 1)) ELSE s0))

\* Lines 58-84: s0 is str(v).strip().
ParseText(s0) == ParseWrapped(StartsWith(s0, "(") /\ EndsWith(s0, ")"), s0)

\* Stock._parse_number
_parse_number(v) ==
    IF IsNone(v) THEN None
    ELSE IF IsNum(v) THEN v
    ELSE ParseText(Strip(StrOf(v)))

(***************************************************************************)
(* The key strings the code names.                                         *)
(***************************************************************************)
k_shares_outstanding == <<"s", "h", "a", "r", "e", "s", "_", "o", "u", "t",
    "s", "t", "a", "n", "d", "i", "n", "g">>
k_market_cap == <<"m", "a", "r", "k", "e", "t", "_", "c", "a", "p">>
k_enterprise_value == <<"e", "n", "t", "e", "r", "p", "r", "i", "s", "e",
    "_", "v", "a", "l", "u", "e">>
k_revenue_ttm == <<"r", "e", "v", "e", "n", "u", "e", "_", "t", "t", "m">>
k_ebit_ttm == <<"e", "b", "i", "t", "_", "t", "t", "m">>
k_operating_income_ttm == <<"o", "p", "e", "r", "a", "t", "i", "n", "g", "_",
    "i", "n", "c", "o", "m", "e", "_", "t", "t", "m">>
k_net_income_ttm == <<"n", "e", "t", "_", "i", "n", "c", "o", "m", "e", "_",
    "t", "t", "m">>
k_total_debt == <<"t", "o", "t", "a", "l", "_", "d", "e", "b", "t">>
k_total_cash == <<"t", "o", "t", "a", "l", "_", "c", "a", "s", "h">>
k_capital_expenditures_ttm == <<"c", "a", "p", "i", "t", "a", "l", "_", "e",
    "x", "p", "e", "n", "d", "i", "t", "u", "r", "e", "s", "_", "t", "t",
    "m">>
k_depreciation_amortization_ttm == <<"d", "e", "p", "r", "e", "c", "i", "a",
    "t", "i", "o", "n", "_", "a", "m", "o", "r", "t", "i", "z", "a", "t",
    "i", "o", "n", "_", "t", "t", "m">>
k_change_in_working_capital_ttm == <<"c", "h", "a", "n", "g", "e", "_", "i",
    "n", "_", "w", "o", "r", "k", "i", "n", "g", "_", "c", "a", "p", "i",
    "t", "a", "l", "_", "t", "t", "m">>
k_tax_rate_ttm == <<"t", "a", "x", "_", "r", "a", "t", "e", "_", "t", "t",
    "m">>
k_p_b == <<"p", "_", "b">>
k_price_to_book == <<"p", "r", "i", "c", "e", "_", "t", "o", "_", "b", "o",
    "o", "k">>
k_p_e_ttm == <<"p", "_", "e", "_", "t", "t", "m">>
k_trailingpe == <<"t", "r", "a", "i", "l", "i", "n", "g", "p", "e">>
k_pe == <<"p", "e">>
k_p_s_ttm == <<"p", "_", "s", "_", "t", "t", "m">>
k_trailingsales == <<"t", "r", "a", "i", "l", "i", "n", "g", "s", "a", "l",
    "e", "s">>
k_ps == <<"p", "s">>
k_dividend_rate == <<"d", "i", "v", "i", "d", "e", "n", "d", "_", "r", "a",
    "t", "e">>
k_dividend == <<"d", "i", "v", "i", "d", "e", "n", "d">>
k_dividend_yield == <<"d", "i", "v", "i", "d", "e", "n", "d", "_", "y", "i",
    "e", "l", "d">>
k_price == <<"p", "r", "i", "c", "e">>
k_currentprice == <<"c", "u", "r", "r", "e", "n", "t", "p", "r", "i", "c",
    "e">>
k_lastprice == <<"l", "a", "s", "t", "p", "r", "i", "c", "e">>
k_previousclose == <<"p", "r", "e", "v", "i", "o", "u", "s", "c", "l", "o",
    "s", "e">>
k_regularmarketprice == <<"r", "e", "g", "u", "l", "a", "r", "m", "a", "r",
    "k", "e", "t", "p", "r", "i", "c", "e">>
k_regularmarketpreviousclose == <<"r", "e", "g", "u", "l", "a", "r", "m",
    "a", "r", "k", "e", "t", "p", "r", "e", "v", "i", "o", "u", "s", "c",
    "l", "o", "s", "e">>
k_tax_provision == <<"t", "a", "x", "_", "p", "r", "o", "v", "i", "s", "i",
    "o", "n">>
k_tax_ttm == <<"t", "a", "x", "_", "t", "t", "m">>
k_tax == <<"t", "a", "x">>
k_pretax_income == <<"p", "r", "e", "t", "a", "x", "_", "i", "n", "c", "o",
    "m", "e">>
k_ebt_ttm == <<"e", "b", "t", "_", "t", "t", "m">>
r_ticker == <<"t", "i", "c", "k", "e", "r">>
r_PE == <<"P", "/", "E">>
r_PS == <<"P", "/", "S">>
r_PB == <<"P", "/", "B">>
r_EV_Revenue == <<"E", "V", "/", "R", "e", "v", "e", "n", "u", "e">>
r_EV_EBIT == <<"E", "V", "/", "E", "B", "I", "T">>
r_Debt_Equity == <<"D", "e", "b", "t", "/", "E", "q", "u", "i", "t", "y">>
r_dcf_pv == <<"d", "c", "f", "_", "p", "v">>
r_equity_value == <<"e", "q", "u", "i", "t", "y", "_", "v", "a", "l", "u",
    "e">>
r_intrinsic_price == <<"i", "n", "t", "r", "i", "n", "s", "i", "c", "_", "p",
    "r", "i", "c", "e">>
r_fcf_ttm_estimate == <<"f", "c", "f", "_", "t", "t", "m", "_", "e", "s",
    "t", "i", "m", "a", "t", "e">>
r_gordon_value == <<"g", "o", "r", "d", "o", "n", "_", "v", "a", "l", "u",
    "e">>
r_dividend_annual == <<"d", "i", "v", "i", "d", "e", "n", "d", "_", "a", "n",
    "n", "u", "a", "l">>
g_Ticker == <<"T", "i", "c", "k", "e", "r">>
g_Symbol == <<"S", "y", "m", "b", "o", "l">>
g_Price == <<"P", "r", "i", "c", "e">>
Val_ == <<"V", "a", "l", "_">>

(***************************************************************************)
(* Python truth and dicts.  A dict is [t |-> "dict", items |-> the         *)
(* sequence of its <<key, value>> pairs in insertion order]; keys and       *)
(* values are Python values, a key a string or a number.                   *)
(***************************************************************************)
Dict(items) == [t |-> "dict", items |-> items]

IsDict(v) == v.t = "dict"

\* bool(v)
Truthy(v) ==
    CASE v.t = "none" -> FALSE
      [] v.t = "num"  -> ~IsZero(v)
      [] v.t = "str"  -> v.s # <<>>
      [] v.t = "dict" -> v.items # <<>>
      [] OTHER        -> TRUE

\* x or y
Or(x, y) == IF Truthy(x) THEN x ELSE y

HasKey(items, k) == \E i \in DOMAIN items : items[i][1] = k

KeyIndex(items, k) == CHOOSE i \in DOMAIN items : items[i][1] = k

\* d.get(k)
Get(items, k) == IF HasKey(items, k) THEN items[KeyIndex(items, k)][2] ELSE None

\* d[k] = v
Set(items, k, v) ==
    IF HasKey(items, k) THEN [items EXCEPT ![KeyIndex(items, k)] = <<k, v>>]
    ELSE Append(items, <<k, v>>)

\* d.update(e)
RECURSIVE Update(_, _)
Update(items, e) ==
    IF e = <<>> THEN items
    ELSE Update(Set(items, Head(e)[1], Head(e)[2]), Tail(e))

IsAlnum(c) == IsDigit(c) \/ c \in Range(LowerLetters)

\* re.sub(r'[^0-9a-z]+', '_', s)
RECURSIVE SubNonAlnum(_)
SubNonAlnum(s) ==
    IF s = <<>> THEN <<>>
    ELSE IF IsAlnum(Head(s)) THEN <<Head(s)>> \o SubNonAlnum(Tail(s))
    ELSE IF Len(s) >= 2 /\ ~IsAlnum(s[2]) THEN SubNonAlnum(Tail(s))
    ELSE <<"_">> \o SubNonAlnum(Tail(s))

RECURSIVE LStripUnderscore(_)
LStripUnderscore(s) ==
    IF s # <<>> /\ Head(s) = "_" THEN LStripUnderscore(Tail(s)) ELSE s

RECURSIVE RStripUnderscore(_)
RStripUnderscore(s) ==
    IF s # <<>> /\ s[Len(s)] = "_"
    THEN RStripUnderscore(SubSeq(s, 1, Len(s) - 1))
    ELSE s

\* The normalized form of one string key.
NormalizeKey(k) ==
    RStripUnderscore(LStripUnderscore(SubNonAlnum(Lower(Strip(k)))))

\* Stock._normalize_keys: keys that are not strings are dropped.
RECURSIVE NormalizeInto(_, _)
NormalizeInto(norm, items) ==
    IF items = <<>> THEN norm
    ELSE LET k == Head(items)[1]
             v == Head(items)[2]
         IN  IF IsStr(k)
             THEN NormalizeInto(Set(norm, Str(NormalizeKey(k.s)), v), Tail(items))
             ELSE NormalizeInto(norm, Tail(items))

_normalize_keys(items) == NormalizeInto(<<>>, items)

\* The value of the first key of norm that equals alt once its underscores are
\* removed; v when there is none.
RECURSIVE FirstVariant(_, _, _)
FirstVariant(norm, alt, v) ==
    IF norm = <<>> THEN v
    ELSE IF Remove(Head(norm)[1].s, {"_"}) = alt THEN Head(norm)[2]
    ELSE FirstVariant(Tail(norm), alt, v)

\* Lines 92-98: v is norm.get(k).
VariantOr(norm, k, v) ==
    IF IsNone(v) THEN FirstVariant(norm, Remove(k, {"_"}), v) ELSE v

\* Lines 90-98: the value _get_number finds for the lower-cased key k.
Lookup(norm, k) == VariantOr(norm, k, Get(norm, Str(k)))

\* Stock._get_number
_get_number(norm, key) ==
    IF key = <<>> THEN None ELSE _parse_number(Lookup(norm, Lower(key)))

\* The first key of keys whose value in norm is not None and parses; p is what
\* the key before parsed to (None for a value of None).
RECURSIVE FirstPrice(_, _)
ParsedOr(p, norm, keys) == IF ~IsNone(p) THEN p ELSE FirstPrice(norm, keys)

FirstPrice(norm, keys) ==
    IF keys = <<>> THEN None
    ELSE ParsedOr(_parse_number(Get(norm, Str(Head(keys)))), norm, Tail(keys))

\* Stock._extract_price
_extract_price(norm) ==
    FirstPrice(norm, <<k_price, k_currentprice, k_lastprice, k_previousclose,
                       k_regularmarketprice, k_regularmarketpreviousclose,
                       k_previousclose>>)

\* The keys __init__ and _infer_tax_rate hand to _get_number.
NumberKeys ==
    {k_shares_outstanding, k_market_cap, k_enterprise_value, k_revenue_ttm,
     k_ebit_ttm, k_operating_income_ttm, k_net_income_ttm, k_total_debt,
     k_total_cash, k_capital_expenditures_ttm, k_depreciation_amortization_ttm,
     k_change_in_working_capital_ttm, k_tax_rate_ttm, k_p_b, k_price_to_book,
     k_p_e_ttm, k_trailingpe, k_pe, k_p_s_ttm, k_trailingsales, k_ps,
     k_dividend_rate, k_dividend, k_dividend_yield, k_tax_provision, k_tax_ttm,
     k_tax, k_pretax_income, k_ebt_ttm}

\* self._get_number(k) for each of those keys: N[k] below.
Numbers(norm) == [k \in NumberKeys |-> _get_number(norm, k)]

\* Lines 121-123.
TaxRateFrom(tp, pretax) ==
    IF Truthy(tp) /\ Truthy(pretax) /\ ~IsZero(pretax)
    THEN Div(tp, pretax)
    ELSE None

\* Stock._infer_tax_rate, N being Numbers(self._norm).
_infer_tax_rate(N) ==
    TaxRateFrom(Or(Or(N[k_tax_provision], N[k_tax_ttm]), N[k_tax]),
                Or(N[k_pretax_income], N[k_ebt_ttm]))

\* float(v): a number, or the exception it raises.
ToFloat(v) ==
    CASE v.t = "num" -> v
      [] v.t = "str" -> ParseFloat(v.s)
      [] OTHER       -> Raise("TypeError")

\* v != 0
NotZero(v) == IF IsNum(v) THEN ~IsZero(v) ELSE TRUE

\* x * y and x / y of two float() results inside try ... except: pass; None
\* stands for "raised".
Product(x, y) == IF IsRaise(x) \/ IsRaise(y) THEN None ELSE Mul(x, y)

Quotient(x, y) ==
    IF IsRaise(x) \/ IsRaise(y) THEN None
    ELSE IF IsZero(y) THEN None
    ELSE Div(x, y)

TryMul(a, b) == Product(ToFloat(a), ToFloat(b))

TryDiv(a, b) == Quotient(ToFloat(a), ToFloat(b))

\* self.<field> = v, skipped when computing v raised.
Assigned(st, field, v) == IF IsNone(v) THEN st ELSE [st EXCEPT ![field] = v]

\* Stock._fill_derived, rule by rule; each takes and returns the object's fields.
FillPrice(st) ==
    IF IsNone(st.price) THEN [st EXCEPT !.price = _extract_price(st.norm)] ELSE st

FillMarketCap(st) ==
    IF IsNone(st.market_cap) /\ ~IsNone(st.shares) /\ ~IsNone(st.price)
    THEN Assigned(st, "market_cap", TryMul(st.shares, st.price))
    ELSE st

FillShares(st) ==
    IF IsNone(st.shares) /\ ~IsNone(st.market_cap) /\ ~IsNone(st.price)
       /\ NotZero(st.price)
    THEN Assigned(st, "shares", TryDiv(st.market_cap, st.price))
    ELSE st

FillEnterpriseValue(st) ==
    IF IsNone(st.enterprise_value) /\ ~IsNone(st.market_cap)
    THEN LET debt == Or(st.total_debt, Float(0))
             cash == Or(st.total_cash, Float(0))
         IN  [st EXCEPT !.enterprise_value = Sub(Add(st.market_cap, debt), cash)]
    ELSE st

FillRevenue(st) ==
    IF IsNone(st.revenue_ttm) /\ ~IsNone(st.ps) /\ ~IsNone(st.market_cap)
       /\ ~IsZero(st.ps)
    THEN [st EXCEPT !.revenue_ttm = Div(st.market_cap, st.ps)]
    ELSE st

FillNetIncome(st) ==
    IF IsNone(st.net_income_ttm) /\ ~IsNone(st.pe) /\ ~IsNone(st.market_cap)
       /\ ~IsZero(st.pe)
    THEN [st EXCEPT !.net_income_ttm = Div(st.market_cap, st.pe)]
    ELSE st

FillDividendYield(st) ==
    IF IsNone(st.dividend_yield) /\ ~IsNone(st.dividend_rate) /\ ~IsNone(st.price)
       /\ NotZero(st.price)
    THEN Assigned(st, "dividend_yield", TryDiv(st.dividend_rate, st.price))
    ELSE st

FillTaxRate(st, N) ==
    IF IsNone(st.tax_rate) THEN [st EXCEPT !.tax_rate = _infer_tax_rate(N)]
    ELSE st

\* The conditions of the eight rules of Stock._fill_derived (lines 127, 131,
\* 137, 144, 153, 160, 167 and 174): some rule would act on these fields.
GuardEnabled(st) ==
    \/ IsNone(st.price)
    \/ IsNone(st.market_cap) /\ ~IsNone(st.shares) /\ ~IsNone(st.price)
    \/ IsNone(st.shares) /\ ~IsNone(st.market_cap) /\ ~IsNone(st.price)
         /\ NotZero(st.price)
    \/ IsNone(st.enterprise_value) /\ ~IsNone(st.market_cap)
    \/ IsNone(st.revenue_ttm) /\ ~IsNone(st.ps) /\ ~IsNone(st.market_cap)
         /\ ~IsZero(st.ps)
    \/ IsNone(st.net_income_ttm) /\ ~IsNone(st.pe) /\ ~IsNone(st.market_cap)
         /\ ~IsZero(st.pe)
    \/ IsNone(st.dividend_yield) /\ ~IsNone(st.dividend_rate) /\ ~IsNone(st.price)
         /\ NotZero(st.price)
    \/ IsNone(st.tax_rate)

\* The rules with the enterprise value taken before the market cap it reads.
FillDerivedValueFirst(st, N) ==
    FillTaxRate(FillDividendYield(FillNetIncome(FillRevenue(
        FillShares(FillMarketCap(FillEnterpriseValue(FillPrice(st))))))), N)

\* Stock._fill_derived, N being Numbers(self._norm).
_fill_derived(st, N) ==
    FillTaxRate(FillDividendYield(FillNetIncome(FillRevenue(
        FillEnterpriseValue(FillShares(FillMarketCap(FillPrice(st))))))), N)

\* Stock.__init__, lines 11-34: the fields as assigned before _fill_derived.
Fields(ticker, norm, price, N) ==
    [t                |-> "stock",
     ticker           |-> ticker,
     norm             |-> norm,
     price            |-> price,
     shares           |-> N[k_shares_outstanding],
     market_cap       |-> N[k_market_cap],
     enterprise_value |-> N[k_enterprise_value],
     revenue_ttm      |-> N[k_revenue_ttm],
     ebit_ttm         |-> Or(N[k_ebit_ttm], N[k_operating_income_ttm]),
     net_income_ttm   |-> N[k_net_income_ttm],
     total_debt       |-> N[k_total_debt],
     total_cash       |-> N[k_total_cash],
     capex_ttm        |-> N[k_capital_expenditures_ttm],
     depr_ttm         |-> N[k_depreciation_amortization_ttm],
     change_wc        |-> N[k_change_in_working_capital_ttm],
     tax_rate         |-> Or(N[k_tax_rate_ttm], _infer_tax_rate(N)),
     price_to_book    |-> Or(N[k_p_b], N[k_price_to_book]),
     pe               |-> Or(Or(N[k_p_e_ttm], N[k_trailingpe]), N[k_pe]),
     ps               |-> Or(Or(N[k_p_s_ttm], N[k_trailingsales]), N[k_ps]),
     dividend_rate    |-> Or(N[k_dividend_rate], N[k_dividend]),
     dividend_yield   |-> N[k_dividend_yield]]

\* Lines 16-37 for the numbers N parsed from norm.
Derived(ticker, norm, price, N) == _fill_derived(Fields(ticker, norm, price, N), N)

\* Lines 14-37 for the normalized record norm.
Normalized(ticker, norm, price) ==
    Derived(ticker, norm,
            IF ~IsNone(price) THEN price ELSE _extract_price(norm),
            Numbers(norm))

\* Stock.__init__: the object's fields (raw and history are stored and never
\* read again, and are left out), or the exception raised by a metrics
\* argument that is true and has no items().
Stock(ticker, metrics, price) ==
    IF Truthy(metrics) /\ ~IsDict(metrics) THEN Raise("AttributeError")
    ELSE Normalized(ticker,
                    _normalize_keys(IF Truthy(metrics) THEN metrics.items ELSE <<>>),
                    price)

\* a / b if a and b else None
Ratio(a, b) == IF Truthy(a) /\ Truthy(b) THEN Div(a, b) ELSE None

\* Lines 195-198.
DebtOver(total_debt, denom) ==
    IF Truthy(denom) /\ ~IsZero(denom) THEN Div(total_debt, denom) ELSE None

\* Lines 189-202; the operands are numbers or None, so nothing raises.
DebtEquity(st) ==
    IF ~IsNone(st.market_cap) /\ ~IsNone(st.total_debt)
    THEN DebtOver(st.total_debt, Sub(st.market_cap, st.total_debt))
    ELSE None

\* Stock.get_relative_value
get_relative_value(st) ==
    Dict(<< <<Str(r_PE), IF ~IsNone(st.pe) THEN st.pe
                         ELSE Ratio(st.market_cap, st.net_income_ttm)>>,
            <<Str(r_PS), IF ~IsNone(st.ps) THEN st.ps
                         ELSE Ratio(st.market_cap, st.revenue_ttm)>>,
            <<Str(r_PB), st.price_to_book>>,
            <<Str(r_EV_Revenue), Ratio(st.enterprise_value, st.revenue_ttm)>>,
            <<Str(r_EV_EBIT), Ratio(st.enterprise_value, st.ebit_ttm)>>,
            <<Str(r_Debt_Equity), DebtEquity(st)>> >>)

\* Stock._estimate_fcf_ttm
_estimate_fcf_ttm(st) ==
    IF ~IsNone(st.net_income_ttm)
    THEN LET dep       == Or(st.depr_ttm, Float(0))
             capex     == Or(st.capex_ttm, Float(0))
             change_wc == Or(st.change_wc, Float(0))
         IN  Sub(Sub(Add(st.net_income_ttm, dep), capex), change_wc)
    ELSE IF ~IsNone(st.ebit_ttm)
    THEN LET tax   == IF ~IsNone(st.tax_rate) THEN st.tax_rate ELSE Frac(25, 100)
             capex == Or(st.capex_ttm, Float(0))
         IN  Sub(Mul(st.ebit_ttm, Sub(Float(1), tax)), capex)
    ELSE None

\* sum(xs): 0 + xs[1] + xs[2] + ...
RECURSIVE Sum(_)
Sum(xs) ==
    IF xs = <<>> THEN Float(0)
    ELSE Add(Sum(SubSeq(xs, 1, Len(xs) - 1)), xs[Len(xs)])

\* The dict get_dcf returns.
DcfResult(dcf_pv, equity_value, intrinsic_price, fcf_ttm_estimate) ==
    Dict(<< <<Str(r_dcf_pv), dcf_pv>>,
            <<Str(r_equity_value), equity_value>>,
            <<Str(r_intrinsic_price), intrinsic_price>>,
            <<Str(r_fcf_ttm_estimate), fcf_ttm_estimate>> >>)

\* Stock.get_dcf, lines 237-239: the result when fcf0 is None or discount <= 0.
DcfBailOut(fcf0) == DcfResult(None, None, None, None)

\* A guard result that drops the estimate, as line 239 does.
DcfGuardResultDropsFcf(fcf0) == DcfResult(None, None, None, None)

\* Compounding where line 242 discounts: x * ((1 + discount) ** n)
DiscountedCompounds(x, discount, n) == Mul(x, Pow(Add(Float(1), discount), n))

\* Stock.get_dcf, lines 242 and 254: x / ((1 + discount) ** n)
Discounted(x, discount, n) == Div(x, Pow(Add(Float(1), discount), n))

\* Stock.get_dcf, lines 250-251: the result when discount <= terminal_growth
\* and no terminal multiple is given.
DcfGuardResult(fcf0) == DcfResult(None, None, None, fcf0)

\* Line 241.
Projections(fcf0, years, growth) ==
    [y \in 1..years |-> Mul(fcf0, Pow(Add(Float(1), growth), y))]

\* Line 242.
PvProjs(fcf_projs, discount) ==
    Sum([i \in 1..Len(fcf_projs) |-> Discounted(fcf_projs[i], discount, i)])

\* Lines 261-268.
DcfPriced(st, fcf0, ev_est, equity_value) ==
    DcfResult(ev_est, equity_value,
              IF Truthy(st.shares) /\ Lt(Float(0), st.shares)
              THEN Div(equity_value, st.shares) ELSE None,
              fcf0)

\* Lines 257-259.
DcfValued(st, fcf0, ev_est) ==
    DcfPriced(st, fcf0, ev_est,
              Add(Sub(ev_est, Or(st.total_debt, Float(0))),
                  Or(st.total_cash, Float(0))))

\* Lines 254-255, tv being the terminal value.
DcfFinish(st, fcf0, pv_projs, tv, years, discount) ==
    DcfValued(st, fcf0, Add(pv_projs, Discounted(tv, discount, years)))

\* Lines 242-268; fcf_projs[-1] of an empty list raises.
DcfProjected(st, fcf0, fcf_projs, years, discount, terminal_growth, terminal_multiple) ==
    IF Truthy(terminal_multiple)
    THEN (IF fcf_projs = <<>> THEN Raise("IndexError")
          ELSE DcfFinish(st, fcf0, PvProjs(fcf_projs, discount),
                         Mul(fcf_projs[Len(fcf_projs)], terminal_multiple),
                         years, discount))
    ELSE IF Le(discount, terminal_growth) THEN DcfGuardResult(fcf0)
    ELSE IF fcf_projs = <<>> THEN Raise("IndexError")
    ELSE DcfFinish(st, fcf0, PvProjs(fcf_projs, discount),
                   Div(Mul(fcf_projs[Len(fcf_projs)],
                           Add(Float(1), terminal_growth)),
                       Sub(discount, terminal_growth)),
                   years, discount)

\* Lines 238-268 for the estimate fcf0.
DcfFrom(st, fcf0, years, growth, discount, terminal_growth, terminal_multiple) ==
    IF IsNone(fcf0) \/ Le(discount, Float(0)) THEN DcfBailOut(fcf0)
    ELSE DcfProjected(st, fcf0, Projections(fcf0, years, growth), years,
                      discount, terminal_growth, terminal_multiple)

\* Stock.get_dcf: years is an integer, growth, discount and terminal_growth are
\* numbers, terminal_multiple is None or a number.
get_dcf(st, years, growth, discount, terminal_growth, terminal_multiple) ==
    DcfFrom(st, _estimate_fcf_ttm(st), years, growth, discount,
            terminal_growth, terminal_multiple)

\* The dict get_growth_dividend_valuation returns.
GordonResult(gordon_value, dividend_annual) ==
    Dict(<< <<Str(r_gordon_value), gordon_value>>,
            <<Str(r_dividend_annual), dividend_annual>> >>)

\* Stock.get_growth_dividend_valuation, lines 275-281: the annual dividend d,
\* None when there is none, or the TypeError of a float times a price that is
\* not a number.
AnnualDividend(st) ==
    IF Truthy(st.dividend_rate) THEN st.dividend_rate
    ELSE IF Truthy(st.dividend_yield) /\ Truthy(st.price)
    THEN (IF IsNum(st.price) THEN Mul(st.dividend_yield, st.price)
          ELSE Raise("TypeError"))
    ELSE None

\* Lines 283-289 for the annual dividend d.
GordonFrom(d, required_return, growth) ==
    IF IsRaise(d) THEN d
    ELSE IF IsNone(d) THEN GordonResult(None, None)
    ELSE IF Le(required_return, growth) THEN GordonResult(None, d)
    ELSE GordonResult(Div(Mul(d, Add(Float(1), growth)),
                          Sub(required_return, growth)), d)

\* Stock.get_growth_dividend_valuation
get_growth_dividend_valuation(st, required_return, growth) ==
    GordonFrom(AnnualDividend(st), required_return, growth)

DefaultYears == 5
DefaultGrowth == Frac(3, 100)
DefaultDiscount == Frac(10, 100)
DefaultTerminalGrowth == Frac(2, 100)
DefaultRequiredReturn == Frac(10, 100)
DefaultGordonGrowth == Frac(2, 100)

get_dcf_default(st) ==
    get_dcf(st, DefaultYears, DefaultGrowth, DefaultDiscount,
            DefaultTerminalGrowth, None)

get_growth_dividend_valuation_default(st) ==
    get_growth_dividend_valuation(st, DefaultRequiredReturn, DefaultGordonGrowth)

\* Lines 292-296 for what the three methods returned or raised.
Summed(ticker, rel, dcf, gor) ==
    IF IsRaise(dcf) THEN dcf
    ELSE IF IsRaise(gor) THEN gor
    ELSE Dict(Update(Update(Update(<< <<Str(r_ticker), ticker>> >>,
                                   rel.items), dcf.items), gor.items))

\* Stock.summary
summary(st) ==
    Summed(st.ticker, get_relative_value(st), get_dcf_default(st),
           get_growth_dividend_valuation_default(st))

(***************************************************************************)
(* panel_app.py                                                            *)
(***************************************************************************)
\* The Stock get_value builds, lines 19-21: ticker and price are read from the
\* record's own entries and the price is handed over as it is.
GetValueStock(metrics) ==
    LET m      == metrics.items
        ticker == Or(Or(Or(Get(m, Str(g_Ticker)), Get(m, Str(r_ticker))),
                        Get(m, Str(g_Symbol))), Str(<<>>))
        price  == Or(Get(m, Str(g_Price)), Get(m, Str(k_price)))
    IN  Stock(ticker, metrics, price)

\* A Dispatch that takes dcf for gordon and gordon for dcf.
DispatchSwapped(st, method) ==
    CASE method = "summary"  -> summary(st)
      [] method = "relative" -> get_relative_value(st)
      [] method = "dcf"      -> get_growth_dividend_valuation_default(st)
      [] method = "gordon"   -> get_dcf_default(st)
      [] OTHER               -> None

\* The method get_value selects, lines 22-30.
Dispatch(st, method) ==
    CASE method = "summary"  -> summary(st)
      [] method = "relative" -> get_relative_value(st)
      [] method = "dcf"      -> get_dcf_default(st)
      [] method = "gordon"   -> get_growth_dividend_valuation_default(st)
      [] OTHER               -> None

\* Lines 21-30: the method runs on a Stock that was built.
Selected(st, method) == IF IsRaise(st) THEN st ELSE Dispatch(st, method)

\* Lines 31-32: any exception gives None.
Caught(r) == IF IsRaise(r) THEN None ELSE r

\* get_value(metrics, method); history is passed on to Stock, which stores it.
get_value(metrics, method) ==
    IF ~Truthy(metrics) \/ ~IsDict(metrics) THEN None
    ELSE Caught(Selected(GetValueStock(metrics), method))

\* out[f"{prefix}{k}"] = v for each item of a dict with string keys.
RECURSIVE AddPrefixed(_, _, _)
AddPrefixed(out, prefix, items) ==
    IF items = <<>> THEN out
    ELSE AddPrefixed(Set(out, Str(prefix \o Head(items)[1].s), Head(items)[2]),
                     prefix, Tail(items))

\* merge_valuations_into_metrics(metrics, valuations, prefix): the dict returned,
\* or the exception raised by a valuations argument that is true and has no
\* items().
merge_valuations_into_metrics(metrics, valuations, prefix) ==
    LET out == IF IsDict(metrics) THEN metrics.items ELSE <<>>
    IN  IF ~Truthy(valuations) THEN Dict(out)
        ELSE IF ~IsDict(valuations) THEN Raise("AttributeError")
        ELSE Dict(AddPrefixed(out, prefix, valuations.items))

\* A merge that writes into the caller's dict (out = metrics).
MergedInPlace(metrics, valuations, prefix) ==
    IF IsDict(metrics) /\ Truthy(valuations) /\ IsDict(valuations)
    THEN Dict(AddPrefixed(metrics.items, prefix, valuations.items))
    ELSE metrics

\* The dict the caller passed as metrics, after the call: line 40 rebinds the
\* local name only and line 41 copies, so every write goes to the copy.
MetricsAfterMerge(metrics, valuations, prefix) == metrics

(***************************************************************************)
(* The state: the arguments a Stock is built from (metrics, price), the     *)
(* arguments the caller passes to the functions it calls (args), the Stock *)
(* object (None before it is built) and the last call made, with its       *)
(* arguments and what it returned or raised.                               *)
(***************************************************************************)
VARIABLES metrics, price, args, stock, call

vars == <<metrics, price, args, stock, call>>

NoCall == [op |-> "none", args |-> <<>>, result |-> None]

Ticker == Str(<<"X">>)

\* An entry a metrics record leaves out.
Absent == [t |-> "absent"]

\* The dict of the entries that are not left out.
Record(items) == Dict(SelectSeq(items, LAMBDA kv : kv[2] # Absent))

\* All sequences over a set of characters of length 1..n.
RECURSIVE Strings(_, _)
Strings(chars, n) ==
    IF n = 0 THEN {}
    ELSE {<<c>> : c \in chars}
         \cup Strings(chars, n - 1)
         \cup {s \o <<c>> : s \in Strings(chars, n - 1), c \in chars}

\* Keys as the metrics records spell them.
m_Price == <<"P", "r", "i", "c", "e">>
m_Shares_Outstanding == <<"S", "h", "a", "r", "e", "s", "_", "O", "u", "t",
    "s", "t", "a", "n", "d", "i", "n", "g">>
m_Market_Cap == <<"M", "a", "r", "k", "e", "t", "_", "C", "a", "p">>
m_Total_Debt == <<"T", "o", "t", "a", "l", "_", "D", "e", "b", "t">>
m_Total_Cash == <<"T", "o", "t", "a", "l", "_", "C", "a", "s", "h">>
m_EBIT_TTM == <<"E", "B", "I", "T", "_", "T", "T", "M">>
m_Net_Income_TTM == <<"N", "e", "t", "_", "I", "n", "c", "o", "m", "e", "_",
    "T", "T", "M">>
m_Capital_Expenditures_TTM == <<"C", "a", "p", "i", "t", "a", "l", "_", "E",
    "x", "p", "e", "n", "d", "i", "t", "u", "r", "e", "s", "_", "T", "T",
    "M">>
m_Tax_Rate_TTM == <<"T", "a", "x", "_", "R", "a", "t", "e", "_", "T", "T",
    "M">>
m_P_E_TTM == <<"P", "_", "E", "_", "T", "T", "M">>
m_Dividend == <<"D", "i", "v", "i", "d", "e", "n", "d">>
m_Dividend_Yield == <<"D", "i", "v", "i", "d", "e", "n", "d", "_", "Y", "i",
    "e", "l", "d">>

(***************************************************************************)
(* Operations.                                                             *)
(***************************************************************************)
\* st = Stock(ticker, metrics, price=price)
Construct ==
    /\ IsNone(stock)
    /\ stock' = Stock(Ticker, metrics, price)
    /\ UNCHANGED <<metrics, price, args, call>>

\* st._parse_number(v)
ParseNumber ==
    /\ call' = [op |-> "_parse_number", args |-> <<args.v>>,
                result |-> _parse_number(args.v)]
    /\ UNCHANGED <<metrics, price, args, stock>>

Built == ~IsNone(stock) /\ ~IsRaise(stock)

\* st.get_dcf(years, growth, discount, terminal_growth, terminal_multiple)
CallDcf ==
    /\ Built
    /\ call' = [op |-> "get_dcf",
                args |-> <<args.years, args.growth, args.discount,
                           args.terminal_growth, args.terminal_multiple>>,
                result |-> get_dcf(stock, args.years, args.growth, args.discount,
                                   args.terminal_growth, args.terminal_multiple)]
    /\ UNCHANGED <<metrics, price, args, stock>>

\* st.get_relative_value()
CallRelative ==
    /\ Built
    /\ call' = [op |-> "get_relative_value", args |-> <<>>,
                result |-> get_relative_value(stock)]
    /\ UNCHANGED <<metrics, price, args, stock>>

\* st.get_growth_dividend_valuation(required_return, growth)
CallGordon ==
    /\ Built
    /\ call' = [op |-> "get_growth_dividend_valuation",
                args |-> <<args.required_return, args.gordon_growth>>,
                result |-> get_growth_dividend_valuation(
                               stock, args.required_return, args.gordon_growth)]
    /\ UNCHANGED <<metrics, price, args, stock>>

\* st.summary()
CallSummary ==
    /\ Built
    /\ call' = [op |-> "summary", args |-> <<>>, result |-> summary(stock)]
    /\ UNCHANGED <<metrics, price, args, stock>>

\* get_value(metrics, method)
GetValue ==
    /\ call' = [op |-> "get_value", args |-> <<metrics, args.method>>,
                result |-> get_value(metrics, args.method)]
    /\ UNCHANGED <<metrics, price, args, stock>>

\* merge_valuations_into_metrics(metrics, valuations, prefix)
Merge ==
    /\ call' = [op |-> "merge_valuations_into_metrics",
                args |-> <<metrics, args.valuations, args.prefix>>,
                result |-> merge_valuations_into_metrics(
                               metrics, args.valuations, args.prefix)]
    /\ metrics' = MetricsAfterMerge(metrics, args.valuations, args.prefix)
    /\ UNCHANGED <<price, args, stock>>

\* get_value, lines 15-21: the Stock it builds from a record that is usable.
ConstructFromRecord ==
    /\ IsNone(stock)
    /\ Truthy(metrics) /\ IsDict(metrics)
    /\ stock' = GetValueStock(metrics)
    /\ UNCHANGED <<metrics, price, args, call>>

\* st._estimate_fcf_ttm()
CallFcf ==
    /\ Built
    /\ call' = [op |-> "_estimate_fcf_ttm", args |-> <<>>,
                result |-> _estimate_fcf_ttm(stock)]
    /\ UNCHANGED <<metrics, price, args, stock>>

\* st._fill_derived() on a built object: a second pass over its fields.
FillAgain ==
    /\ Built
    /\ call.op # "_fill_derived"
    /\ stock' = _fill_derived(stock, Numbers(stock.norm))
    /\ call' = [op |-> "_fill_derived", args |-> <<stock>>, result |-> None]
    /\ UNCHANGED <<metrics, price, args>>

(***************************************************************************)
(* Numeric parsing on its own: _parse_number reads nothing of the object.  *)
(***************************************************************************)
MaxBodyLen == 2

BodyChars == {"0", "2", "3", ".", ","}

ExampleTexts ==
    { <<"$", "1", ",", "2", "3", "4", ".", "5", "0">>,
      <<"(", "5", "0", "0", ")">>,
      <<"1", "2", ".", "5", "%">>,
      <<"2", ".", "3", "B">>,
      <<"2", ".", "3", "b">>,
      <<"n", "/", "a">>,
      <<>> }

Suffixes == {<<>>, <<"k">>, <<"K">>, <<"m">>, <<"M">>, <<"b">>, <<"B">>}

Prefixes == {<<>>, <<"$">>, <<"-">>}

\* A body with a prefix and a suffix, plain, in parentheses or as a percentage.
ParseTexts ==
    LET core == {p \o b \o x : p \in Prefixes, b \in Strings(BodyChars, MaxBodyLen),
                               x \in Suffixes}
    IN  core \cup {<<"(">> \o c \o <<")">> : c \in core}
             \cup {c \o <<"%">> : c \in core}
             \cup ExampleTexts

ParseInputs == {Str(s) : s \in ParseTexts} \cup {None, Obj, Frac(5, 2)}

InitParse ==
    /\ metrics = None
    /\ price = None
    /\ args \in [v : ParseInputs]
    /\ stock = None
    /\ call = NoCall

NextParse == ParseNumber

SpecParse == InitParse /\ [][NextParse]_vars

\* The scale a suffix letter stands for, in either case.
ClaimedScale(x) ==
    CASE Lower(x) = <<"k">> -> Float(1000)
      [] Lower(x) = <<"m">> -> Float(1000000)
      [] Lower(x) = <<"b">> -> Float(1000000000)

\* The plain numeric bodies: digits with at most one point.
NumericBodies ==
    {b \in Strings(BodyChars, MaxBodyLen) \cup {<<"2", ".", "3">>} :
        "," \notin Range(b) /\ ~IsRaise(ParseFloat(b))}

\* C1: _parse_number scales a numeric body by the scale of its k/m/b suffix in
\* either letter case (so "2.3B" is 2300000000.0), "$1,234.50" is 1234.5,
\* "(500)" is -500.0, "12.5%" is 0.125 and "n/a" is None.
C1_ParseScalesEverySuffix ==
    call.op = "_parse_number" /\ IsStr(call.args[1]) =>
        LET s == call.args[1].s
            r == call.result
        IN  /\ \A b \in NumericBodies : \A x \in Suffixes \ {<<>>} :
                 s = b \o x => IsNum(r) /\ Eq(r, Mul(ParseFloat(b), ClaimedScale(x)))
            /\ s = <<"$", "1", ",", "2", "3", "4", ".", "5", "0">>
                 => IsNum(r) /\ Eq(r, Frac(12345, 10))
            /\ s = <<"(", "5", "0", "0", ")">> => IsNum(r) /\ Eq(r, Float(-500))
            /\ s = <<"1", "2", ".", "5", "%">> => IsNum(r) /\ Eq(r, Frac(125, 1000))
            /\ s = <<"n", "/", "a">> => IsNone(r)

\* What does hold: the same with the upper-case B left out, which parses to None.
ParseScalesSuffixesButB ==
    call.op = "_parse_number" /\ IsStr(call.args[1]) =>
        LET s == call.args[1].s
            r == call.result
        IN  /\ \A b \in NumericBodies : \A x \in Suffixes \ {<<>>, <<"B">>} :
                 s = b \o x => IsNum(r) /\ Eq(r, Mul(ParseFloat(b), ClaimedScale(x)))
            /\ \A b \in NumericBodies : s = b \o <<"B">> => IsNone(r)
            /\ s = <<"$", "1", ",", "2", "3", "4", ".", "5", "0">>
                 => IsNum(r) /\ Eq(r, Frac(12345, 10))
            /\ s = <<"(", "5", "0", "0", ")">> => IsNum(r) /\ Eq(r, Float(-500))
            /\ s = <<"1", "2", ".", "5", "%">> => IsNum(r) /\ Eq(r, Frac(125, 1000))
            /\ s = <<"n", "/", "a">> => IsNone(r)

(***************************************************************************)
(* Discounted cash flow: a Stock built from the fields get_dcf reads, and  *)
(* one choice of the parameters of get_dcf.                                *)
(***************************************************************************)
MaxYears == 2

DcfMetrics ==
    {Record(<< <<Str(m_Net_Income_TTM), ni>>, <<Str(m_EBIT_TTM), ebit>>,
               <<Str(m_Shares_Outstanding), sh>>, <<Str(m_Total_Debt), Float(50)>> >>) :
        ni \in {Absent, Float(-100), Float(0), Float(100)},
        ebit \in {Absent, Float(200)},
        sh \in {Absent, Float(10)}}

Growths == {Float(-2), Float(-1), Float(0), Frac(1, 2)}

Discounts == {Frac(-1, 2), Float(0), Frac(1, 10), Frac(1, 2), Float(1)}

TerminalGrowths == {Float(-2), Float(0), Frac(1, 2)}

TerminalMultiples == {None, Float(0), Float(3)}

DcfArgs ==
    [years : -1..MaxYears, growth : Growths, discount : Discounts,
     terminal_growth : TerminalGrowths, terminal_multiple : TerminalMultiples]

InitDcf ==
    /\ metrics \in DcfMetrics
    /\ price = None
    /\ args \in DcfArgs
    /\ stock = None
    /\ call = NoCall

NextDcf == Construct \/ CallDcf

SpecDcf == InitDcf /\ [][NextDcf]_vars

\* The entry of a returned dict.
Field(result, key) == Get(result.items, Str(key))

\* Two values are both None or the same number.
Same(a, b) == IF IsNum(a) /\ IsNum(b) THEN Eq(a, b) ELSE a = b

Returned == IsDict(call.result)

AllNoneBut(result, fcf0) ==
    /\ IsNone(Field(result, r_dcf_pv))
    /\ IsNone(Field(result, r_equity_value))
    /\ IsNone(Field(result, r_intrinsic_price))
    /\ Same(Field(result, r_fcf_ttm_estimate), fcf0)

\* C2: when fcf0 is None or discount <= 0, get_dcf returns dcf_pv, equity_value
\* and intrinsic_price None and fcf_ttm_estimate equal to fcf0 (not None when
\* fcf0 is derivable).
C2_BailOutReportsFcf ==
    call.op = "get_dcf"
    /\ (IsNone(_estimate_fcf_ttm(stock)) \/ Le(call.args[3], Float(0)))
    => Returned /\ AllNoneBut(call.result, _estimate_fcf_ttm(stock))

Fcf0 == _estimate_fcf_ttm(stock)

DcfPv(result) == Field(result, r_dcf_pv)

\* The call get_dcf(years, growth, discount, terminal_growth) just made: no
\* terminal multiple, an FCF estimate, and discount > 0, discount > terminal_growth.
GordonTerminalCall ==
    /\ call.op = "get_dcf"
    /\ ~IsNone(Fcf0)
    /\ IsNone(call.args[5])
    /\ Lt(Float(0), call.args[3])
    /\ Lt(call.args[4], call.args[3])

\* The same call with another discount rate.
DcfAt(discount) == get_dcf(stock, call.args[1], call.args[2], discount, call.args[4], None)

PvWithMultiple(fcf0, years, growth, discount, multiple) ==
    LET proj(y) == Mul(fcf0, Pow(Add(Float(1), growth), y))
        disc(x, y) == Div(x, Pow(Add(Float(1), discount), y))
    IN  Add(Sum([y \in 1..years |-> disc(proj(y), y)]),
            disc(Mul(proj(years), multiple), years))

\* C9: with discount > 0, discount <= terminal_growth and no terminal multiple,
\* get_dcf returns dcf_pv, equity_value and intrinsic_price None and
\* fcf_ttm_estimate equal to the FCF estimate; with a non-zero terminal multiple
\* (and a final-year projection, years >= 1) the terminal value is the final
\* projection times the multiple whatever the order of discount and
\* terminal_growth.
C9_TerminalGrowthGuard ==
    call.op = "get_dcf" /\ Lt(Float(0), call.args[3]) =>
        /\ Le(call.args[3], call.args[4]) /\ IsNone(call.args[5])
             => Returned /\ AllNoneBut(call.result, Fcf0)
        /\ Truthy(call.args[5]) /\ ~IsNone(Fcf0) /\ call.args[1] >= 1
             => /\ Returned
                /\ IsNum(DcfPv(call.result))
                /\ Eq(DcfPv(call.result),
                      PvWithMultiple(Fcf0, call.args[1], call.args[2],
                                     call.args[3], call.args[5]))

\* A call the guard stops: discount > 0, discount <= terminal_growth, no
\* multiple, and the FCF estimate reported.
C9_Witness ==
    /\ call.op = "get_dcf" /\ Lt(Float(0), call.args[3])
    /\ Le(call.args[3], call.args[4]) /\ IsNone(call.args[5])
    /\ IsNum(Fcf0) /\ ~IsZero(Fcf0) /\ call.args[1] >= 1
    /\ Returned /\ IsNum(Field(call.result, r_fcf_ttm_estimate))

(***************************************************************************)
(* Relative multiples: a Stock built from market cap, debt and the fields  *)
(* the other ratios read.                                                  *)
(***************************************************************************)
RelativeMetrics ==
    {Record(<< <<Str(m_Market_Cap), mc>>, <<Str(m_Total_Debt), td>>,
               <<Str(m_Net_Income_TTM), ni>>, <<Str(m_P_E_TTM), pe>>,
               <<Str(m_Shares_Outstanding), sh>>, <<Str(m_Price), p>> >>) :
        mc \in {Absent, Float(0), Float(100), Float(300)},
        td \in {Absent, None, Float(0), Float(100), Float(300),
                Str(<<"(", "1", "0", "0", ")">>)},
        ni \in {Absent, Float(0), Float(50)},
        pe \in {Absent, Float(5)},
        sh \in {Absent, Float(10)},
        p \in {Absent, Float(10)}}

InitRelative ==
    /\ metrics \in RelativeMetrics
    /\ price = None
    /\ args = <<>>
    /\ stock = None
    /\ call = NoCall

NextRelative == Construct \/ CallRelative

SpecRelative == InitRelative /\ [][NextRelative]_vars

\* C3: Debt/Equity is total_debt / (market_cap - total_debt) when market cap
\* strictly exceeds total debt, and None in every other case (a missing
\* operand, market cap equal to or less than total debt).
C3_DebtEquityOnlyForPositiveEquity ==
    call.op = "get_relative_value" =>
        LET mc == stock.market_cap
            td == stock.total_debt
            de == Field(call.result, r_Debt_Equity)
        IN  IF IsNum(mc) /\ IsNum(td) /\ Lt(td, mc)
            THEN IsNum(de) /\ Eq(de, Div(td, Sub(mc, td)))
            ELSE IsNone(de)

(***************************************************************************)
(* Dividend growth: a Stock built from a dividend, a yield and a price,    *)
(* and one choice of the parameters.                                       *)
(***************************************************************************)
GordonMetrics ==
    {Record(<< <<Str(m_Dividend), dv>>, <<Str(m_Dividend_Yield), dy>>,
               <<Str(m_Price), p>> >>) :
        dv \in {Absent, Float(0), Float(2)},
        dy \in {Absent, Float(0), Frac(1, 20)},
        p \in {Absent, Float(0), Float(10)}}

Returns == {Float(0), Frac(1, 10), Frac(1, 2)}

GordonGrowths == {Frac(-1, 2), Float(0), Frac(1, 10), Float(1)}

GordonArgs == [required_return : Returns, gordon_growth : GordonGrowths]

InitGordon ==
    /\ metrics \in GordonMetrics
    /\ price \in {None, Float(20)}
    /\ args \in GordonArgs
    /\ stock = None
    /\ call = NoCall

NextGordon == Construct \/ CallGordon

SpecGordon == InitGordon /\ [][NextGordon]_vars

\* The annual dividend as C4 states it: the dividend rate when it is not None,
\* else yield times price when neither is None, else None.
ClaimedDividend(st) ==
    IF ~IsNone(st.dividend_rate) THEN st.dividend_rate
    ELSE IF ~IsNone(st.dividend_yield) /\ ~IsNone(st.price)
    THEN Mul(st.dividend_yield, st.price)
    ELSE None

\* C4: dividend_annual is the dividend rate whenever the rate is present (0
\* included), else yield times price when both are present, else the result is
\* all None; and with required_return <= growth gordon_value is None while
\* dividend_annual is that dividend.
C4_DividendFromPresentRate ==
    call.op = "get_growth_dividend_valuation" =>
        LET d == ClaimedDividend(stock)
            r == call.result
        IN  /\ Returned
            /\ Same(Field(r, r_dividend_annual), d)
            /\ IsNone(d) => IsNone(Field(r, r_gordon_value))
            /\ Le(call.args[1], call.args[2]) => IsNone(Field(r, r_gordon_value))

(***************************************************************************)
(* The four valuation methods on one Stock, with the explicit price a      *)
(* caller may pass (a number, or the text of a record's Price entry).      *)
(***************************************************************************)
m_Dividend_Rate == <<"D", "i", "v", "i", "d", "e", "n", "d", "_", "R", "a",
    "t", "e">>

ValuationMetrics ==
    {Record(<< <<Str(m_Net_Income_TTM), ni>>, <<Str(m_Shares_Outstanding), sh>>,
               <<Str(m_Dividend_Rate), dv>>, <<Str(m_Dividend_Yield), dy>> >>) :
        ni \in {Absent, Float(100)},
        sh \in {Absent, Float(10)},
        dv \in {Absent, Float(2)},
        dy \in {Absent, Frac(1, 20)}}

Prices == {None, Float(10), Str(<<"1", "0">>), Str(<<"$", "1", "0">>)}

ValuationArgs ==
    [years : -1 .. 1, growth : {Float(0), Frac(1, 2)},
     discount : {Float(0), Frac(1, 10)}, terminal_growth : {Float(0)},
     terminal_multiple : {None, Float(3)},
     required_return : {Frac(1, 10)}, gordon_growth : {Float(0)}]

InitValuation ==
    /\ metrics \in ValuationMetrics
    /\ price \in Prices
    /\ args \in ValuationArgs
    /\ stock = None
    /\ call = NoCall

NextValuation ==
    Construct \/ CallRelative \/ CallDcf \/ CallGordon \/ CallSummary

SpecValuation == InitValuation /\ [][NextValuation]_vars

\* C5: construction and every call of get_relative_value, get_dcf,
\* get_growth_dividend_valuation and summary return; none raises, whatever the
\* metrics, the explicit price and the parameters (years <= 0 included).
C5_ValuationNeverRaises == ~IsRaise(stock) /\ ~IsRaise(call.result)

(***************************************************************************)
(* get_value on whatever the caller hands it.                              *)
(***************************************************************************)
GetValueMetrics ==
    {None, Obj}
    \cup {Record(<< <<Str(g_Price), p>>, <<Str(m_Net_Income_TTM), ni>>,
                    <<Str(m_Shares_Outstanding), sh>>,
                    <<Str(m_Dividend_Yield), dy>> >>) :
            p \in {Absent, Float(10), Str(<<"$", "1", "0">>)},
            ni \in {Absent, Float(100)},
            sh \in {Absent, Float(10)},
            dy \in {Absent, Frac(1, 20)}}

Methods == {"summary", "relative", "dcf", "gordon"}

InitGetValue ==
    /\ metrics \in GetValueMetrics
    /\ price = None
    /\ args \in [method : Methods \cup {"other"}]
    /\ stock = None
    /\ call = NoCall

NextGetValue == GetValue

SpecGetValue == InitGetValue /\ [][NextGetValue]_vars

\* What the method selected returns or raises on a Stock, by C6's table.
MethodRecord(st, method) ==
    IF method = "summary" THEN summary(st)
    ELSE IF method = "relative" THEN get_relative_value(st)
    ELSE IF method = "dcf" THEN get_dcf_default(st)
    ELSE get_growth_dividend_valuation_default(st)

Usable(m, method) == IsDict(m) /\ m.items # <<>> /\ method \in Methods

\* C6: get_value never raises; it returns None when metrics is not a mapping
\* or is empty, when the selector is none of summary/relative/dcf/gordon, and
\* when construction or the selected method raises; otherwise it returns
\* exactly the record of the method selected, dcf and gordon with defaults.
C6_GetValueRecordOrNone ==
    call.op = "get_value" =>
        LET m == call.args[1]
            method == call.args[2]
            r == call.result
        IN  /\ ~IsRaise(r)
            /\ ~Usable(m, method) => IsNone(r)
            /\ Usable(m, method) =>
                   LET st == GetValueStock(m)
                   IN  IF IsRaise(st) THEN IsNone(r)
                       ELSE IF IsRaise(MethodRecord(st, method)) THEN IsNone(r)
                       ELSE IsDict(r) /\ r = MethodRecord(st, method)

\* A get_value whose selected method raised and which returned None.
C6_Witness ==
    /\ call.op = "get_value"
    /\ Usable(call.args[1], call.args[2])
    /\ IsRaise(MethodRecord(GetValueStock(call.args[1]), call.args[2]))
    /\ IsNone(call.result)

(***************************************************************************)
(* merge_valuations_into_metrics on a metrics record that may already hold *)
(* prefixed keys.                                                          *)
(***************************************************************************)
key_a == <<"a">>
key_b == <<"b">>

MergeMetrics ==
    {None, Obj}
    \cup {Record(<< <<Str(key_a), a>>, <<Str(Val_ \o key_a), va>>,
                    <<Str(Val_ \o key_b), vb>> >>) :
            a \in {Absent, Float(1)}, va \in {Absent, Float(1)},
            vb \in {Absent, Float(1)}}

MergeValuations ==
    {None, Obj}
    \cup {Record(<< <<Str(key_a), a>>, <<Str(key_b), b>> >>) :
            a \in {Absent, None, Float(2)}, b \in {Absent, None, Float(2)}}

MergePrefixes == {Val_, <<>>}

InitMerge ==
    /\ metrics \in MergeMetrics
    /\ price = None
    /\ args \in [valuations : MergeValuations, prefix : MergePrefixes]
    /\ stock = None
    /\ call = NoCall

NextMerge == Merge

SpecMerge == InitMerge /\ [][NextMerge]_vars

\* The keys of a dict's items.
Keys(items) == {items[i][1] : i \in 1 .. Len(items)}

\* The items of a record, none for anything else.
ItemsOf(v) == IF IsDict(v) THEN v.items ELSE <<>>

\* C7: for a valuation record (or None), merge_valuations_into_metrics leaves
\* both arguments as they were and returns a record holding prefix+k -> v for
\* every valuation entry, every metrics entry whose key is not such a
\* prefixed key, and nothing else; so an empty or None valuation record gives
\* a copy of metrics and a non-mapping metrics gives the prefixed entries only.
C7_MergeKeepsArguments ==
    (call.op = "merge_valuations_into_metrics"
     /\ (IsNone(call.args[2]) \/ IsDict(call.args[2]))) =>
        LET m == ItemsOf(call.args[1])
            v == ItemsOf(call.args[2])
            p == call.args[3]
            r == call.result
            prefixed == {Str(p \o k.s) : k \in Keys(v)}
        IN  /\ metrics = call.args[1]
            /\ args.valuations = call.args[2]
            /\ IsDict(r)
            /\ \A i \in 1 .. Len(v) :
                   /\ HasKey(r.items, Str(p \o v[i][1].s))
                   /\ Get(r.items, Str(p \o v[i][1].s)) = v[i][2]
            /\ \A i \in 1 .. Len(m) :
                   m[i][1] \notin prefixed =>
                       /\ HasKey(r.items, m[i][1])
                       /\ Get(r.items, m[i][1]) = m[i][2]
            /\ Keys(r.items) = Keys(m) \cup prefixed
            /\ Len(r.items) = Cardinality(Keys(r.items))
            /\ v = <<>> => r = Dict(m)

\* A merge whose valuation overrode a metrics entry that held the prefixed key.
C7_Witness ==
    /\ call.op = "merge_valuations_into_metrics"
    /\ IsDict(call.args[1]) /\ IsDict(call.args[2])
    /\ call.args[3] = Val_
    /\ HasKey(call.args[1].items, Str(Val_ \o key_a))
    /\ HasKey(call.args[2].items, Str(key_a))
    /\ IsDict(call.result)
    /\ Get(call.result.items, Str(Val_ \o key_a)) = Float(2)

(***************************************************************************)
(* Construction from shares, market cap and a price.                       *)
(***************************************************************************)
DeriveMetrics ==
    {Record(<< <<Str(m_Shares_Outstanding), sh>>, <<Str(m_Market_Cap), mc>>,
               <<Str(m_Price), p>> >>) :
        sh \in {Absent, Float(0), Float(100)},
        mc \in {Absent, Float(0), Float(1), Float(1000)},
        p \in {Absent, Float(0), Float(10), Float(49)}}

DerivePrices ==
    {None, Float(0), Float(10), Str(<<"1", "0">>), Str(<<"$", "1", "0">>)}

InitDerive ==
    /\ metrics \in DeriveMetrics
    /\ price \in DerivePrices
    /\ args = <<>>
    /\ stock = None
    /\ call = NoCall

NextDerive == Construct

SpecDerive == InitDerive /\ [][NextDerive]_vars

\* shares and market cap as the record supplies them.
SuppliedShares == _get_number(stock.norm, k_shares_outstanding)
SuppliedMarketCap == _get_number(stock.norm, k_market_cap)

\* a * b = c for a price that may still be text.
IsProduct(c, a, b) ==
    IsNum(c) /\ IsNum(a) /\ IsNum(ToFloat(b)) /\ Eq(c, Mul(a, ToFloat(b)))

\* C10: after construction, an absent market cap is shares * price when shares
\* and price are present; absent shares are market_cap / price when market cap
\* and a price other than 0 are present; a supplied market cap or shares value
\* stays; and whenever one of the two was derived, shares * price = market_cap.
C10_DerivationRoundTrip ==
    Built =>
        LET sh == SuppliedShares
            mc == SuppliedMarketCap
            p  == stock.price
        IN  /\ (IsNone(mc) /\ ~IsNone(sh) /\ ~IsNone(p)) =>
                   IsProduct(stock.market_cap, sh, p)
            /\ (IsNone(sh) /\ ~IsNone(mc) /\ ~IsNone(p) /\ NotZero(p)) =>
                   IsProduct(mc, stock.shares, p)
            /\ ~IsNone(mc) => Same(stock.market_cap, mc)
            /\ ~IsNone(sh) => Same(stock.shares, sh)
            /\ (stock.market_cap # mc \/ stock.shares # sh) =>
                   IsProduct(stock.market_cap, stock.shares, p)

(***************************************************************************)
(* A Stock built directly or the way get_value builds it, from records     *)
(* with text, numeric and null values, and then used by the four methods.  *)
(***************************************************************************)
FieldsMetrics ==
    {Record(<< <<Str(g_Price), p>>, <<Str(m_Net_Income_TTM), ni>>,
               <<Str(m_Shares_Outstanding), sh>>,
               <<Str(m_Dividend_Yield), dy>> >>) :
        p \in {Absent, None, Float(10), Str(<<"1", "0">>), Str(<<"$", "1", "0">>)},
        ni \in {Absent, Float(100), Str(<<"1", "k">>)},
        sh \in {Absent, Float(10)},
        dy \in {Absent, Frac(1, 20)}}

FieldsArgs ==
    [years : {0, 1}, growth : {Float(0)}, discount : {Frac(1, 10)},
     terminal_growth : {Float(0)}, terminal_multiple : {None},
     required_return : {Frac(1, 10)}, gordon_growth : {Float(0)}]

InitFields ==
    /\ metrics \in FieldsMetrics
    /\ price \in Prices
    /\ args \in FieldsArgs
    /\ stock = None
    /\ call = NoCall

NextFields ==
    \/ Construct
    \/ ConstructFromRecord
    \/ CallRelative
    \/ CallDcf
    \/ CallGordon
    \/ CallSummary

SpecFields == InitFields /\ [][NextFields]_vars

\* The financial fields of a Stock.
FinancialFields ==
    {"price", "shares", "market_cap", "enterprise_value", "revenue_ttm",
     "ebit_ttm", "net_income_ttm", "total_debt", "total_cash", "capex_ttm",
     "depr_ttm", "change_wc", "tax_rate", "price_to_book", "pe", "ps",
     "dividend_rate", "dividend_yield"}

FieldsAreNumbers ==
    Built => \A f \in FinancialFields : IsNone(stock[f]) \/ IsNum(stock[f])

\* C11: once a Stock is built, directly or by get_value, every financial field
\* (price included) is None or a number, and no step after construction (any
\* of the four methods, in any order and number) changes a field.
C11_FieldsNumericAndFixed ==
    [](FieldsAreNumbers) /\ [][Built => stock' = stock]_vars

(***************************************************************************)
(* Construction from records that spell one field under several of its     *)
(* aliases, with 0, "0", None and other numbers as values.                 *)
(***************************************************************************)
AliasValues == {Absent, None, Float(0), Str(<<"0">>), Float(5)}

LowerValues == {Absent, Float(0), Float(7)}

\* The records over two aliases, and over three.
TwoAliases(k1, k2) ==
    {Record(<< <<Str(k1), a>>, <<Str(k2), b>> >>) :
        a \in AliasValues, b \in LowerValues}

ThreeAliases(k1, k2, k3) ==
    {Record(<< <<Str(k1), a>>, <<Str(k2), b>>, <<Str(k3), c>> >>) :
        a \in AliasValues, b \in LowerValues, c \in {Absent, Float(9)}}

TaxRecords ==
    {Record(<< <<Str(k_tax_rate_ttm), a>>, <<Str(k_tax_provision), tp>>,
               <<Str(k_pretax_income), pt>> >>) :
        a \in {Absent, None, Float(0), Str(<<"0">>), Frac(1, 5)},
        tp \in {Absent, Float(0), Float(30)}, pt \in {Absent, Float(100)}}

AliasMetrics ==
    TwoAliases(k_ebit_ttm, k_operating_income_ttm)
    \cup TwoAliases(k_p_b, k_price_to_book)
    \cup ThreeAliases(k_p_e_ttm, k_trailingpe, k_pe)
    \cup ThreeAliases(k_p_s_ttm, k_trailingsales, k_ps)
    \cup TwoAliases(k_dividend_rate, k_dividend)
    \cup TaxRecords

InitAlias ==
    /\ metrics \in AliasMetrics
    /\ price = None
    /\ args = <<>>
    /\ stock = None
    /\ call = NoCall

NextAlias == Construct

SpecAlias == InitAlias /\ [][NextAlias]_vars

\* The number of the first key, in priority order, that parses to a number;
\* None when none does.
RECURSIVE FirstParsed(_, _)
FirstParsed(norm, keys) ==
    IF keys = <<>> THEN None
    ELSE IF ~IsNone(_get_number(norm, Head(keys)))
    THEN _get_number(norm, Head(keys))
    ELSE FirstParsed(norm, Tail(keys))

\* C12: each multi-alias field is the number of the first alias, in priority
\* order, that parses to a number, 0 included; the tax rate is tax_rate_ttm
\* whenever that parses to a number.
C12_FirstParsedAliasWins ==
    Built =>
        /\ Same(stock.ebit_ttm,
                FirstParsed(stock.norm, <<k_ebit_ttm, k_operating_income_ttm>>))
        /\ Same(stock.price_to_book,
                FirstParsed(stock.norm, <<k_p_b, k_price_to_book>>))
        /\ Same(stock.pe,
                FirstParsed(stock.norm, <<k_p_e_ttm, k_trailingpe, k_pe>>))
        /\ Same(stock.ps,
                FirstParsed(stock.norm, <<k_p_s_ttm, k_trailingsales, k_ps>>))
        /\ Same(stock.dividend_rate,
                FirstParsed(stock.norm, <<k_dividend_rate, k_dividend>>))
        /\ ~IsNone(_get_number(stock.norm, k_tax_rate_ttm)) =>
               Same(stock.tax_rate, _get_number(stock.norm, k_tax_rate_ttm))

(***************************************************************************)
(* The free-cash-flow estimate of a Stock built from income, EBIT, the     *)
(* cash-flow terms and the tax inputs.                                     *)
(***************************************************************************)
FcfMetrics ==
    {Record(<< <<Str(m_Net_Income_TTM), ni>>, <<Str(m_EBIT_TTM), eb>>,
               <<Str(m_Capital_Expenditures_TTM), cx>>,
               <<Str(k_depreciation_amortization_ttm), dp>>,
               <<Str(k_change_in_working_capital_ttm), wc>>,
               <<Str(m_Tax_Rate_TTM), tr>>, <<Str(k_tax_provision), tp>>,
               <<Str(k_pretax_income), pt>> >>) :
        ni \in {Absent, Float(0), Float(100)},
        eb \in {Absent, Float(200)},
        cx \in {Absent, Float(0), Float(30)},
        dp \in {Absent, Float(20)},
        wc \in {Absent, Float(5)},
        tr \in {Absent, Float(0), Frac(1, 5)},
        tp \in {Absent, Float(0), Float(30)},
        pt \in {Absent, Float(100)}}

InitFcf ==
    /\ metrics \in FcfMetrics
    /\ price = None
    /\ args = <<>>
    /\ stock = None
    /\ call = NoCall

NextFcf == Construct \/ CallFcf

SpecFcf == InitFcf /\ [][NextFcf]_vars

\* x, or 0 for a missing term.
OrZero(x) == IF IsNone(x) THEN Float(0) ELSE x

\* The tax rate as C13 knows it: the supplied tax_rate_ttm when it is a number,
\* else tax provision over pretax income when both are numbers and pretax
\* income is not 0, else unknown (None).
KnownTaxRate(norm) ==
    LET tr == _get_number(norm, k_tax_rate_ttm)
        tp == FirstParsed(norm, <<k_tax_provision, k_tax_ttm, k_tax>>)
        pt == FirstParsed(norm, <<k_pretax_income, k_ebt_ttm>>)
    IN  IF ~IsNone(tr) THEN tr
        ELSE IF ~IsNone(tp) /\ ~IsNone(pt) /\ ~IsZero(pt) THEN Div(tp, pt)
        ELSE None

\* The estimate as C13 states it.
ClaimedFcf(st) ==
    IF ~IsNone(st.net_income_ttm)
    THEN Sub(Sub(Add(st.net_income_ttm, OrZero(st.depr_ttm)),
                 OrZero(st.capex_ttm)), OrZero(st.change_wc))
    ELSE IF ~IsNone(st.ebit_ttm)
    THEN Sub(Mul(st.ebit_ttm,
                 Sub(Float(1), IF IsNone(KnownTaxRate(st.norm)) THEN Frac(25, 100)
                               ELSE KnownTaxRate(st.norm))),
             OrZero(st.capex_ttm))
    ELSE None

\* C13: the estimate is net_income + depreciation - capex - change in working
\* capital (missing terms 0) when net income is present, else
\* EBIT * (1 - tax_rate) - capex when EBIT is present, the tax rate being 0.25
\* only when unknown (a supplied or inferred rate of 0 is used as it is),
\* else None.
C13_FcfEstimate ==
    call.op = "_estimate_fcf_ttm" => Same(call.result, ClaimedFcf(stock))

\* The same with the tax rate the object holds, whatever it was built from.
FcfFromHeldTaxRate ==
    call.op = "_estimate_fcf_ttm" =>
        Same(call.result,
             IF ~IsNone(stock.net_income_ttm) \/ IsNone(stock.ebit_ttm)
             THEN ClaimedFcf(stock)
             ELSE Sub(Mul(stock.ebit_ttm,
                          Sub(Float(1), IF IsNone(stock.tax_rate) THEN Frac(25, 100)
                                        ELSE stock.tax_rate)),
                      OrZero(stock.capex_ttm)))

(***************************************************************************)
(* The derivation pass run again on a Stock built from every combination   *)
(* of present and absent inputs.                                           *)
(***************************************************************************)
FixedPointMetrics ==
    {Record(<< <<Str(m_Price), p>>, <<Str(m_Shares_Outstanding), sh>>,
               <<Str(m_Market_Cap), mc>>, <<Str(k_enterprise_value), ev>>,
               <<Str(k_revenue_ttm), rv>>, <<Str(m_Net_Income_TTM), ni>>,
               <<Str(k_ps), ps>>, <<Str(m_P_E_TTM), pe>>,
               <<Str(m_Dividend_Rate), dr>>, <<Str(m_Dividend_Yield), dy>>,
               <<Str(m_Total_Debt), td>>, <<Str(m_Total_Cash), tc>>,
               <<Str(k_tax_provision), tx>>, <<Str(k_pretax_income), tx>> >>) :
        p \in {Absent, Float(10)},
        sh \in {Absent, Float(100)},
        mc \in {Absent, Float(1000)},
        ev \in {Absent, Float(5)},
        rv \in {Absent, Float(7)},
        ni \in {Absent, Float(3)},
        ps \in {Absent, Float(2)},
        pe \in {Absent, Float(4)},
        dr \in {Absent, Float(1)},
        dy \in {Absent, Frac(1, 20)},
        td \in {Absent, Float(50)},
        tc \in {Absent, Float(20)},
        tx \in {Absent, Float(30)}}

\* An explicit price: none, zero, a number, and text that float() refuses.
FixedPointPrices == {None, Float(0), Float(10), Str(<<"$", "1", "0">>)}

InitFixedPoint ==
    /\ metrics \in FixedPointMetrics
    /\ price \in FixedPointPrices
    /\ (price # None => ~HasKey(metrics.items, Str(m_Price)))
    /\ args = <<>>
    /\ stock = None
    /\ call = NoCall

NextFixedPoint == Construct \/ FillAgain

SpecFixedPoint == InitFixedPoint /\ [][NextFixedPoint]_vars

\* C14, as claimed: a second run of _fill_derived changes no field, no rule's
\* guard being enabled once the first pass is over.
C14_NoGuardEnabledAfterFirstPass ==
    /\ Built => ~GuardEnabled(stock)
    /\ call.op = "_fill_derived" => stock = call.args[1]

\* C14, as the code has it: a second run of _fill_derived changes no field;
\* a rule whose guard is still enabled after the first pass (price or tax rate
\* still None, or a rule whose float() conversion raised) gives the same
\* outcome again.
C14_SecondPassChangesNothing ==
    call.op = "_fill_derived" => stock = call.args[1]

\* A second pass over an object whose first pass derived market cap, enterprise
\* value, revenue, net income and dividend yield and left the tax rate None.
C14_Witness ==
    /\ call.op = "_fill_derived"
    /\ IsNone(_get_number(stock.norm, k_market_cap))
    /\ IsNum(stock.market_cap) /\ IsNum(stock.enterprise_value)
    /\ IsNum(stock.revenue_ttm) /\ IsNum(stock.net_income_ttm)
    /\ IsNum(stock.dividend_yield)
    /\ IsNone(stock.tax_rate)
    /\ GuardEnabled(stock)

====
